---------------------------- MODULE Spec2Model ----------------------------
(***************************************************************************)
(* A model of the ephemeral_buffers package (src/ephemeral_buffers.go):    *)
(* a Pool of Buffers handed out through a buffered channel                 *)
(* (buffersAvailable), tracked while leased in a slice (buffersInUse)      *)
(* guarded by a mutex, and watched by the poolMonitor goroutine.           *)
(*                                                                         *)
(* Every goroutine is a process with a program counter.  One step of a     *)
(* process is one access to shared state: a channel operation, a critical  *)
(* section (Lock, the statements under the lock, Unlock), or an            *)
(* unsynchronised read or write of a field of the Pool or of a Buffer.     *)
(* Statements that touch only the goroutine's locals are folded into the   *)
(* step before them.  poolMonitor holds the lock over the steps of a scan, *)
(* because the fields it reads are written without the lock; otherwise the *)
(* variable lock is Nil between steps unless a critical section has        *)
(* panicked.  A read that races with a write yields the old value, the new *)
(* one or a torn one.                                                      *)
(*                                                                         *)
(* Environment: Clients call Acquire, Release and BuffersAvailable         *)
(* concurrently, and the methods of the embedded bytes.Buffer on the       *)
(* Buffers they hold; Release is called only on a Buffer that Acquire      *)
(* returned and that has not been released since (the set leased).  Free   *)
(* is called by the pool's Owner, one call at a time.                      *)
(*                                                                         *)
(* The capacity bytes.Buffer allocates depends on the Go release the       *)
(* package is built with; the variable build holds the rule of the run.    *)
(***************************************************************************)
EXTENDS Integers, Sequences, FiniteSets, TLC

\* ------------------------------------------------------------- bounds
\* The largest count NewPool is called with.
MaxCount == 2
\* The number of client goroutines.
NumClients == 2
\* The bytes of one chunk written by a client.
ChunkSize == 80
\* The largest write, and the most one lease writes, in chunks of ChunkSize bytes.
MaxWrite == 1
\* The most calls of methods of the embedded bytes.Buffer in one lease.
MaxCalls == 4

\* The number of clock units the clock advances in a run.
MaxTicks == 2

\* ---------------------------------------------------- program constants
\* bytes.smallBufferSize: the capacity of the first allocation of a small buffer.
SmallBufferSize == 64
\* The staleness threshold of poolMonitor, 100 * time.Millisecond, in clock units
\* of 100 ms.
StaleAfter == 1
\* The instant NewPool is called at: late enough for the zero time.Time of a
\* Buffer that was never stamped to lie more than the threshold in the past.
StartTime == StaleAfter + 1

\* The value Release stores in eb.index.
NoIndex == -1
\* bytes.MinRead: the room ReadFrom asks for before every read.
MinRead == 512
\* utf8.UTFMax: the room WriteRune asks for before it encodes the rune.
UTFMax == 4
\* The values of lastRead (bytes.readOp): opRead, opInvalid; opReadRune1 to
\* opReadRune4 are the sizes 1 .. UTFMax of the rune read.
OpRead == -1
OpInvalid == 0
\* The runtime's largest small allocation and its page size: a larger
\* allocation is rounded up to whole pages.
MaxSmallSize == 32768
PageSize == 8192
\* The nil pointer: no Buffer, no lock holder.
Nil == 0

\* ------------------------------------------------------------- inputs
Clients == 1 .. NumClients
Owner == NumClients + 1
Monitor == NumClients + 2
Procs == Clients \cup {Owner}
\* The client of the runs with a single goroutine.
User == 1
Tags == {"t"}
CountInputs == -1 .. MaxCount
SizeInputs == {-1, 0, 8, 100}
\* The Go releases differ in how bytes.Buffer allocates: up to Go 1.19 grow
\* calls makeSlice, later releases call growSlice.
Builds == {"makeSlice", "growSlice"}
WriteSizes == {ChunkSize * k : k \in 1 .. MaxWrite}
\* The lengths of the slices Read is called with (1: ReadByte), and the
\* lengths Truncate is called with.
ReadSizes == {1} \cup WriteSizes
TruncateSizes == {0, 1}
\* The lengths of the writes of the runs with a single goroutine: a chunk,
\* and a write that leaves less than UTFMax bytes of the small allocation.
FillSizes == WriteSizes \cup {SmallBufferSize - 2}
\* The encoded lengths of the runes written and read: 1 (below utf8.RuneSelf)
\* and 2 (a rune of several bytes).
RuneSizes == {1, 2}
\* The bytes a reader of the content (ReadBytes, WriteTo) takes.
TakeSizes == {0} \cup ReadSizes
MaxLen == ChunkSize * MaxWrite

VARIABLES
    build,             \* the bytes package of the build: "makeSlice" or "growSlice"
    pool,              \* "nil" or "valid": the *Pool NewPool returned
    size,              \* p.size
    count,             \* p.count
    nbuf,              \* cap(p.buffersAvailable): the count the pool was built with
    lock,              \* p.lock: Nil, or the process holding it
    buffersAvailable,  \* p.buffersAvailable: the channel's queue of Buffers
    buffersInUse,      \* p.buffersInUse: slot i |-> a Buffer or Nil; <<>> is the nil slice
    buf,               \* the Buffers: b |-> [off, len, cap, lastRead, origSize,
                       \*                    index, tag, acquiredAt]
    leased,            \* the Buffers Acquire returned that Release was not called on
    pc,                \* the position of each client and of the owner
    eb,                \* the local eb of a client in Acquire or Release
    tagArg,            \* the argument tag of a client in Acquire
    ret,               \* the local i of a client in BuffersAvailable
    fcount,            \* the local count of Free
    fi,                \* the local i of Free
    wpc,               \* the position of poolMonitor
    scan,              \* the locals of poolMonitor in a scan: the slot i it is
                       \* at, its now, and the tag it has read
    slot,              \* the slot a client in Release has emptied (history)
    now,               \* the instant time.Now() returns
    log                \* the messages the last step logged

vars == <<build, pool, size, count, nbuf, lock, buffersAvailable, buffersInUse, buf,
          leased, pc, eb, tagArg, ret, slot, fcount, fi, wpc, scan, now, log>>

Buffers == 1 .. nbuf

\* ------------------------------------------------------ bytes.Buffer
\* The embedded bytes.Buffer of a Buffer is the fields off (the read offset),
\* len (Len(), the unread bytes: len(b.buf) - b.off), cap (Cap(), cap(b.buf))
\* and lastRead.  b.buf is nil exactly when cap is 0.
Max(a, b) == IF a >= b THEN a ELSE b
Min(a, b) == IF a <= b THEN a ELSE b

\* The size classes of the runtime's allocator (runtime/sizeclasses.go).
SizeClasses ==
    {8, 16, 24, 32, 48, 64, 80, 96, 112, 128, 144, 160, 176, 192, 208, 224,
     240, 256, 288, 320, 352, 384, 416, 448, 480, 512, 576, 640, 704, 768,
     896, 1024, 1152, 1280, 1408, 1536, 1792, 2048, 2304, 2688, 3072, 3200,
     3456, 4096, 4864, 5376, 6144, 6528, 6784, 6912, 8192, 9472, 9728,
     10240, 10880, 12288, 13568, 14336, 16384, 18432, 19072, 20480, 21760,
     24576, 27264, 28672, 32768}

\* runtime.roundupsize: the bytes the allocator hands out for a request of n.
RoundUpSize(n) ==
    IF n > MaxSmallSize
    THEN ((n + PageSize - 1) \div PageSize) * PageSize
    ELSE IF n = 0
    THEN 0
    ELSE CHOOSE s \in SizeClasses :
             s >= n /\ \A t \in SizeClasses : t >= n => s <= t

\* The capacity of the slice grow allocates when n more bytes neither fit nor
\* can be made to fit by sliding.  makeSlice(2*c + n) has exactly that
\* capacity; growSlice(b.buf[b.off:], b.off+n) appends to a nil slice
\* max(len + off + n, 2 * (cap - off)) bytes, rounded up to a size class.
Realloc(g, b, n) ==
    IF g = "makeSlice"
    THEN 2 * b.cap + n
    ELSE RoundUpSize(Max(b.len + b.off + n, 2 * (b.cap - b.off)))

\* b.grow(n): the buffer with room for n more bytes, its length grown by n.
\* An empty buffer with a read offset is reset first; the bytes are taken
\* from the slice if they fit; a buffer without a slice gets the small
\* allocation; the unread bytes slide down if that leaves room; otherwise
\* the slice is reallocated.
grow(g, b, n) ==
    LET r == IF b.len = 0 /\ b.off # 0
             THEN [b EXCEPT !.off = 0, !.lastRead = OpInvalid]
             ELSE b
    IN  IF n <= r.cap - (r.off + r.len)
        THEN [r EXCEPT !.len = r.len + n]
        ELSE IF r.cap = 0 /\ n <= SmallBufferSize
        THEN [r EXCEPT !.len = n, !.cap = SmallBufferSize]
        ELSE IF n <= (r.cap \div 2) - r.len
        THEN [r EXCEPT !.off = 0, !.len = r.len + n]
        ELSE [r EXCEPT !.off = 0, !.len = r.len + n, !.cap = Realloc(g, r, n)]

\* The zero bytes.Buffer{}.
ZeroBuf == [off |-> 0, len |-> 0, cap |-> 0, lastRead |-> OpInvalid]

\* *bytes.NewBuffer(make([]byte, n)): the slice is the content.
BufferOf(n) == [off |-> 0, len |-> n, cap |-> n, lastRead |-> OpInvalid]

\* Grow(n): grow(n), with the length put back.
BufGrow(g, b, n) == [grow(g, b, n) EXCEPT !.len = @ - n]

\* Cap() after buf.Grow(n) on a new bytes.Buffer.
GrowNew(g, n) == BufGrow(g, ZeroBuf, n).cap

\* Write(p) with len(p) = n (WriteString and WriteByte likewise): the bytes
\* go into the slice if they fit, and grow(n) makes room otherwise.
BufWrite(g, b, n) ==
    IF n <= b.cap - (b.off + b.len)
    THEN [b EXCEPT !.len = b.len + n, !.lastRead = OpInvalid]
    ELSE grow(g, [b EXCEPT !.lastRead = OpInvalid], n)

\* WriteRune(r) of a rune encoded in n bytes: a rune below utf8.RuneSelf is
\* a WriteByte; for any other, room for UTFMax bytes is made and n of them
\* are used.
BufWriteRune(g, b, n) ==
    IF n = 1
    THEN BufWrite(g, b, 1)
    ELSE [BufWrite(g, b, UTFMax) EXCEPT !.len = @ - UTFMax + n]

\* Mutant of BufReset: the content is kept.
BufResetKeeps(b) == b

\* Reset(): the content is dropped, the capacity kept.
BufReset(b) == [b EXCEPT !.off = 0, !.len = 0, !.lastRead = OpInvalid]

\* Truncate(n), 0 <= n <= Len(): all but the first n unread bytes are dropped.
BufTruncate(b, n) ==
    IF n = 0 THEN BufReset(b) ELSE [b EXCEPT !.len = n, !.lastRead = OpInvalid]

\* Read(p) with len(p) = n > 0 (ReadByte: n = 1): an empty buffer is reset,
\* otherwise up to n bytes are consumed.
BufRead(b, n) ==
    IF b.len = 0
    THEN BufReset(b)
    ELSE [b EXCEPT !.off = b.off + Min(n, b.len), !.len = b.len - Min(n, b.len),
                   !.lastRead = OpRead]

\* Next(n): up to n bytes are consumed; an empty buffer is not reset.
BufNext(b, n) ==
    [b EXCEPT !.off = b.off + Min(n, b.len), !.len = b.len - Min(n, b.len),
              !.lastRead = IF Min(n, b.len) > 0 THEN OpRead ELSE OpInvalid]

\* ReadRune() when the rune at the front is encoded in n <= Len() bytes: an
\* empty buffer is reset, otherwise the rune is consumed and its size kept.
BufReadRune(b, n) ==
    IF b.len = 0
    THEN BufReset(b)
    ELSE [b EXCEPT !.off = b.off + n, !.len = b.len - n, !.lastRead = n]

\* ReadBytes(delim), ReadString(delim) (readSlice): the k bytes up to and
\* with the delimiter, or all of them, are consumed; no reset.
BufReadBytes(b, k) ==
    [b EXCEPT !.off = b.off + k, !.len = b.len - k, !.lastRead = OpRead]

\* UnreadByte(): after a read, the last byte read is unread again.
BufUnreadByte(b) ==
    IF b.lastRead = OpInvalid
    THEN b
    ELSE [b EXCEPT !.lastRead = OpInvalid,
                   !.off = IF b.off > 0 THEN b.off - 1 ELSE 0,
                   !.len = IF b.off > 0 THEN b.len + 1 ELSE b.len]

\* UnreadRune(): after a ReadRune, the rune read is unread again.
BufUnreadRune(b) ==
    IF b.lastRead <= OpInvalid
    THEN b
    ELSE [b EXCEPT !.lastRead = OpInvalid,
                   !.off = IF b.off >= b.lastRead THEN b.off - b.lastRead ELSE b.off,
                   !.len = IF b.off >= b.lastRead THEN b.len + b.lastRead ELSE b.len]

\* WriteTo(w) when w takes m <= Len() bytes, with an error (e) or without:
\* the bytes taken are consumed, and the buffer is reset when it was empty
\* or all was written without an error.
BufWriteTo(b, m, e) ==
    IF b.len = 0 \/ (m = b.len /\ ~e)
    THEN BufReset(b)
    ELSE [b EXCEPT !.off = b.off + m, !.len = b.len - m, !.lastRead = OpInvalid]

\* The loop of ReadFrom(r) for a reader with n bytes left that fills the
\* room it is given: grow(MinRead), one read into the free part of the
\* slice, until the reader reports io.EOF, with its last bytes (e) or by an
\* empty read after them.
RECURSIVE ReadLoop(_, _, _, _)
ReadLoop(g, b, n, e) ==
    LET r == [grow(g, b, MinRead) EXCEPT !.len = @ - MinRead]
        m == Min(n, r.cap - (r.off + r.len))
        d == [r EXCEPT !.len = r.len + m]
    IN  IF n = 0 \/ (e /\ m = n) THEN d ELSE ReadLoop(g, d, n - m, e)

\* ReadFrom(r)
BufReadFrom(g, b, n, e) == ReadLoop(g, [b EXCEPT !.lastRead = OpInvalid], n, e)

\* ------------------------------------------------------------ NewPool
\* A Buffer as NewPool builds it: grown to size, origSize set; index, tag and
\* acquiredAt keep their zero values (0, "", the zero time, here instant 0).
\* calls counts the calls of bytes.Buffer methods in the lease (history).
NewBuffer(g, sz) ==
    [off |-> 0, len |-> 0, cap |-> GrowNew(g, sz), lastRead |-> OpInvalid,
     origSize |-> sz, index |-> 0, tag |-> "", acquiredAt |-> 0, calls |-> 0]

\* The locals of poolMonitor outside a scan.
NoScan == [i |-> 0, now |-> 0, tag |-> ""]

\* The error NewPool logs for count <= 0 or size <= 0.
InvalidArguments == [msg |-> "invalid arguments"]

\* The state NewPool leaves: an error logged and nil for count <= 0 or
\* size <= 0; otherwise the channel filled with count new Buffers, count empty
\* slots and the monitor started.  No call is in progress.
NewPool(g, cnt, sz) ==
    /\ build = g
    /\ pc = [p \in Procs |-> "idle"]
    /\ eb = [p \in Clients |-> Nil]
    /\ tagArg = [p \in Clients |-> ""]
    /\ ret = [p \in Clients |-> 0]
    /\ slot = [p \in Clients |-> NoIndex]
    /\ fcount = 0
    /\ fi = 0
    /\ lock = Nil
    /\ leased = {}
    /\ now = StartTime
    /\ scan = NoScan
    /\ IF cnt <= 0 \/ sz <= 0
       THEN /\ log = <<InvalidArguments>>
            /\ pool = "nil"
            /\ size = 0
            /\ count = 0
            /\ nbuf = 0
            /\ buffersAvailable = <<>>
            /\ buffersInUse = <<>>
            /\ buf = <<>>
            /\ wpc = "none"
       ELSE /\ log = <<>>
            /\ pool = "valid"
            /\ size = sz
            /\ count = cnt
            /\ nbuf = cnt
            /\ buffersAvailable = [k \in 1 .. cnt |-> k]
            /\ buffersInUse = [k \in 0 .. cnt - 1 |-> Nil]
            /\ buf = [k \in 1 .. cnt |-> NewBuffer(g, sz)]
            /\ wpc = "W_loop"

Init ==
    \E g \in Builds, cnt \in CountInputs, sz \in SizeInputs : NewPool(g, cnt, sz)

\* ------------------------------------------------- shared conditions
\* Mutant of Invalid: the test without p.count == 0.
InvalidSizeOnly(sz, cnt) == sz = 0

\* The test every method of Pool starts with: p.size == 0 || p.count == 0.
Invalid(sz, cnt) == sz = 0 \/ cnt = 0

\* Mutant of Recv: the head is read and stays in the channel.
RecvPeek(q) == q

\* The channel after a receive, <-p.buffersAvailable, took its head.
Recv(q) == Tail(q)

\* Mutant of Send: the handle is sent twice.
SendTwice(q, b) == Append(Append(q, b), b)

\* The channel after a send, p.buffersAvailable <- b.
Send(q, b) == Append(q, b)

\* ------------------------------------------------------------ Acquire
\* The slots of a slice that hold no Buffer.
EmptySlots(slots) == {k \in DOMAIN slots : slots[k] = Nil}

\* Mutant of FirstEmpty: the last empty slot is taken.
LastEmpty(slots) ==
    CHOOSE k \in EmptySlots(slots) : \A j \in EmptySlots(slots) : k >= j

\* Mutant of FirstEmpty: the loop stops at the first slot, empty or not.
FirstSlot(slots) == CHOOSE k \in DOMAIN slots : \A j \in DOMAIN slots : k <= j

\* The slot the loop of Acquire stops at: the first empty one.
FirstEmpty(slots) ==
    CHOOSE k \in EmptySlots(slots) : \A j \in EmptySlots(slots) : k <= j

\* Acquire is entered: a nil receiver panics on p.size, an invalid pool
\* returns nil, a valid one goes on to the receive.
AcquireCall(c, t) ==
    /\ pc[c] = "idle"
    /\ IF pool = "nil"
       THEN pc' = [pc EXCEPT ![c] = "panic"] /\ UNCHANGED tagArg
       ELSE IF Invalid(size, count)
            THEN pc' = [pc EXCEPT ![c] = "A_nil"] /\ UNCHANGED tagArg
            ELSE /\ pc' = [pc EXCEPT ![c] = "A_recv"]
                 /\ tagArg' = [tagArg EXCEPT ![c] = t]
    /\ log' = <<>>
    /\ UNCHANGED <<build, pool, size, count, nbuf, lock, buffersAvailable, buffersInUse,
                   buf, leased, eb, ret, fcount, fi, wpc, scan, now,
                   slot>>

\* return nil
AcquireNil(c) ==
    /\ pc[c] = "A_nil"
    /\ pc' = [pc EXCEPT ![c] = "idle"]
    /\ log' = <<>>
    /\ UNCHANGED <<build, pool, size, count, nbuf, lock, buffersAvailable, buffersInUse,
                   buf, leased, eb, tagArg, ret, fcount, fi, wpc, scan, now,
                   slot>>

\* eb := <-p.buffersAvailable
AcquireRecv(c) ==
    /\ pc[c] = "A_recv"
    /\ buffersAvailable # <<>>
    /\ eb' = [eb EXCEPT ![c] = Head(buffersAvailable)]
    /\ buffersAvailable' = Recv(buffersAvailable)
    /\ pc' = [pc EXCEPT ![c] = "A_slot"]
    /\ log' = <<>>
    /\ UNCHANGED <<build, pool, size, count, nbuf, lock, buffersInUse, buf, leased,
                   tagArg, ret, fcount, fi, wpc, scan, now,
                   slot>>

\* p.lock.Lock(), the loop over p.buffersInUse, p.lock.Unlock(): the first
\* empty slot takes eb; with no empty slot nothing is assigned.
AcquireSlot(c) ==
    /\ pc[c] = "A_slot"
    /\ lock = Nil
    /\ IF EmptySlots(buffersInUse) # {}
       THEN /\ buffersInUse' =
                  [buffersInUse EXCEPT ![FirstEmpty(buffersInUse)] = eb[c]]
            /\ buf' = [buf EXCEPT ![eb[c]].index = FirstEmpty(buffersInUse)]
       ELSE UNCHANGED <<buffersInUse, buf>>
    /\ pc' = [pc EXCEPT ![c] = "A_tag"]
    /\ log' = <<>>
    /\ UNCHANGED <<build, pool, size, count, nbuf, lock, buffersAvailable, leased, eb,
                   tagArg, ret, fcount, fi, wpc, scan, now,
                   slot>>

\* eb.tag = tag
AcquireTag(c) ==
    /\ pc[c] = "A_tag"
    /\ buf' = [buf EXCEPT ![eb[c]].tag = tagArg[c]]
    /\ pc' = [pc EXCEPT ![c] = "A_time"]
    /\ log' = <<>>
    /\ UNCHANGED <<build, pool, size, count, nbuf, lock, buffersAvailable, buffersInUse,
                   leased, eb, tagArg, ret, fcount, fi, wpc, scan, now,
                   slot>>

\* eb.acquiredAt = time.Now(); return eb
AcquireTime(c) ==
    /\ pc[c] = "A_time"
    /\ buf' = [buf EXCEPT ![eb[c]].acquiredAt = now]
    /\ leased' = leased \cup {eb[c]}
    /\ eb' = [eb EXCEPT ![c] = Nil]
    /\ tagArg' = [tagArg EXCEPT ![c] = ""]
    /\ pc' = [pc EXCEPT ![c] = "idle"]
    /\ log' = <<>>
    /\ UNCHANGED <<build, pool, size, count, nbuf, lock, buffersAvailable, buffersInUse,
                   ret, fcount, fi, wpc, scan, now,
                   slot>>

\* ------------------------------------------------------------- Write
\* A client calls a method of the embedded bytes.Buffer of a Buffer it
\* holds: the bytes.Buffer becomes nb.
BufferCall(c, b, nb) ==
    /\ pc[c] = "idle"
    /\ b \in leased
    /\ buf[b].calls < MaxCalls
    /\ buf' = [buf EXCEPT ![b].off = nb.off, ![b].len = nb.len, ![b].cap = nb.cap,
                          ![b].lastRead = nb.lastRead, ![b].calls = @ + 1]
    /\ log' = <<>>
    /\ UNCHANGED <<build, pool, size, count, nbuf, lock, buffersAvailable,
                   buffersInUse, leased, pc, eb, tagArg, ret, fcount, fi, wpc, scan,
                   now, slot>>

\* b.Write(p) with len(p) = n; b.WriteString(s); b.WriteByte(c)
Write(c, b, n) ==
    /\ buf[b].len + n <= MaxLen
    /\ BufferCall(c, b, BufWrite(build, buf[b], n))

\* b.WriteRune(r) of a rune encoded in n bytes
WriteRune(c, b, n) ==
    /\ buf[b].len + n <= MaxLen
    /\ BufferCall(c, b, BufWriteRune(build, buf[b], n))

\* b.Grow(n)
Grow(c, b, n) == BufferCall(c, b, BufGrow(build, buf[b], n))

\* b.Reset()
Reset(c, b) == BufferCall(c, b, BufReset(buf[b]))

\* b.Truncate(n)
Truncate(c, b, n) ==
    /\ n <= buf[b].len
    /\ BufferCall(c, b, BufTruncate(buf[b], n))

\* b.Read(p) with len(p) = n; b.ReadByte()
Read(c, b, n) == BufferCall(c, b, BufRead(buf[b], n))

\* b.Next(n)
NextBytes(c, b, n) == BufferCall(c, b, BufNext(buf[b], n))

\* b.ReadRune(): the rune at the front is encoded in n bytes
ReadRune(c, b, n) ==
    /\ n <= buf[b].len \/ buf[b].len = 0
    /\ BufferCall(c, b, BufReadRune(buf[b], n))

\* b.ReadBytes(delim), b.ReadString(delim): the delimiter is the k-th byte,
\* or is not there and all k = Len() bytes are read.
ReadBytes(c, b, k) ==
    /\ k <= buf[b].len
    /\ k = 0 => buf[b].len = 0
    /\ BufferCall(c, b, BufReadBytes(buf[b], k))

\* b.UnreadByte()
UnreadByte(c, b) == BufferCall(c, b, BufUnreadByte(buf[b]))

\* b.UnreadRune()
UnreadRune(c, b) == BufferCall(c, b, BufUnreadRune(buf[b]))

\* b.WriteTo(w): w takes m bytes, with an error (e) or without
WriteTo(c, b, m, e) ==
    /\ m <= buf[b].len
    /\ BufferCall(c, b, BufWriteTo(buf[b], m, e))

\* b.ReadFrom(r), io.Copy(b, r): r holds n bytes and reports io.EOF with the
\* last of them (e) or after them.
ReadFrom(c, b, n, e) ==
    /\ buf[b].len + n <= MaxLen
    /\ BufferCall(c, b, BufReadFrom(build, buf[b], n, e))

\* b.Buffer = v: the exported embedded field is assigned.
SetBuffer(c, b, v) == BufferCall(c, b, v)

\* ------------------------------------------------------------ Release
\* The warning Release logs for a Buffer that has grown.
GrowthWarning(b) ==
    [msg |-> "allocated", tag |-> b.tag, cap |-> b.cap, requested |-> size]

\* Mutant of Grown: a Buffer at its recorded size counts as grown.
GrownOrEqual(b) == b.cap >= b.origSize

\* The size check of Release: eb.Cap() > eb.origSize
Grown(b) == b.cap > b.origSize

\* Release is entered on a leased Buffer (eb.pool is the pool): the check of
\* the size, which warns and raises origSize when the Buffer has grown.
ReleaseCall(c, b) ==
    /\ pc[c] = "idle"
    /\ b \in leased
    /\ leased' = leased \ {b}
    /\ eb' = [eb EXCEPT ![c] = b]
    /\ IF Grown(buf[b])
       THEN /\ log' = <<GrowthWarning(buf[b])>>
            /\ buf' = [buf EXCEPT ![b].origSize = buf[b].cap, ![b].calls = 0]
       ELSE /\ log' = <<>>
            /\ buf' = [buf EXCEPT ![b].calls = 0]
    /\ pc' = [pc EXCEPT ![c] = "R_clear"]
    /\ UNCHANGED <<build, pool, size, count, nbuf, lock, buffersAvailable, buffersInUse,
                   tagArg, ret, fcount, fi, wpc, scan, now,
                   slot>>

\* Mutant of ClearSlot: the slot is left as it is.
ClearSlotSkipped(slots, k) == slots

\* The slice after buffersInUse[k] = nil.
ClearSlot(slots, k) == [slots EXCEPT ![k] = Nil]

\* eb.pool.lock.Lock(); eb.pool.buffersInUse[eb.index] = nil; Unlock().  An
\* index outside the slice panics with the lock held.
ReleaseClear(c) ==
    /\ pc[c] = "R_clear"
    /\ lock = Nil
    /\ IF buf[eb[c]].index \in DOMAIN buffersInUse
       THEN /\ buffersInUse' = ClearSlot(buffersInUse, buf[eb[c]].index)
            /\ slot' = [slot EXCEPT ![c] = buf[eb[c]].index]
            /\ pc' = [pc EXCEPT ![c] = "R_index"]
            /\ UNCHANGED lock
       ELSE /\ pc' = [pc EXCEPT ![c] = "panic"]
            /\ lock' = c
            /\ UNCHANGED <<buffersInUse, slot>>
    /\ log' = <<>>
    /\ UNCHANGED <<build, pool, size, count, nbuf, buffersAvailable, buf, leased,
                   eb, tagArg, ret, fcount, fi, wpc, scan, now>>

\* eb.index = -1
ReleaseIndex(c) ==
    /\ pc[c] = "R_index"
    /\ buf' = [buf EXCEPT ![eb[c]].index = NoIndex]
    /\ pc' = [pc EXCEPT ![c] = "R_tag"]
    /\ log' = <<>>
    /\ UNCHANGED <<build, pool, size, count, nbuf, lock, buffersAvailable,
                   buffersInUse, leased, eb, tagArg, ret, fcount, fi, wpc, scan, now,
                   slot>>

\* eb.tag = ""
ReleaseTag(c) ==
    /\ pc[c] = "R_tag"
    /\ buf' = [buf EXCEPT ![eb[c]].tag = ""]
    /\ pc' = [pc EXCEPT ![c] = "R_reset"]
    /\ log' = <<>>
    /\ UNCHANGED <<build, pool, size, count, nbuf, lock, buffersAvailable,
                   buffersInUse, leased, eb, tagArg, ret, fcount, fi, wpc, scan, now,
                   slot>>

\* eb.Reset()
ReleaseReset(c) ==
    /\ pc[c] = "R_reset"
    /\ buf' = [buf EXCEPT ![eb[c]] = BufReset(buf[eb[c]])]
    /\ pc' = [pc EXCEPT ![c] = "R_send"]
    /\ log' = <<>>
    /\ UNCHANGED <<build, pool, size, count, nbuf, lock, buffersAvailable,
                   buffersInUse, leased, eb, tagArg, ret, fcount, fi, wpc, scan, now,
                   slot>>

\* eb.pool.buffersAvailable <- eb: the send waits while the channel is full.
ReleaseSend(c) ==
    /\ pc[c] = "R_send"
    /\ Len(buffersAvailable) < nbuf
    /\ buffersAvailable' = Send(buffersAvailable, eb[c])
    /\ eb' = [eb EXCEPT ![c] = Nil]
    /\ slot' = [slot EXCEPT ![c] = NoIndex]
    /\ pc' = [pc EXCEPT ![c] = "idle"]
    /\ log' = <<>>
    /\ UNCHANGED <<build, pool, size, count, nbuf, lock, buffersInUse, buf, leased,
                   tagArg, ret, fcount, fi, wpc, scan, now>>

\* Mutant of DrainMore: the loop stops one round early.
DrainOneLess(i, n) == i + 1 < n

\* Mutant of DrainMore: the loop runs one round too many.
DrainOneMore(i, n) == i <= n

\* The condition of the loop of Free: i < count.
DrainMore(i, n) == i < n

\* --------------------------------------------------- BuffersAvailable
\* Mutant of CountEmpty: the entries that are not nil are counted.
CountOccupied(slots) == Cardinality(DOMAIN slots \ EmptySlots(slots))

\* The number of nil entries the loop of BuffersAvailable counts.
CountEmpty(slots) == Cardinality(EmptySlots(slots))

\* BuffersAvailable is entered: a nil receiver panics, an invalid pool
\* returns 0.
AvailableCall(c) ==
    /\ pc[c] = "idle"
    /\ IF pool = "nil"
       THEN pc' = [pc EXCEPT ![c] = "panic"]
       ELSE IF Invalid(size, count)
            THEN pc' = [pc EXCEPT ![c] = "B_zero"]
            ELSE pc' = [pc EXCEPT ![c] = "B_scan"]
    /\ ret' = [ret EXCEPT ![c] = 0]
    /\ log' = <<>>
    /\ UNCHANGED <<build, pool, size, count, nbuf, lock, buffersAvailable, buffersInUse,
                   buf, leased, eb, tagArg, fcount, fi, wpc, scan, now,
                   slot>>

\* Free is at its unlocked write p.buffersInUse = nil: a read of the slice
\* at this moment races with the write.
Discarding == pc[Owner] = "F_drain" /\ ~DrainMore(fi, fcount)

\* p.lock.Lock(), the loop counting the nil entries, p.lock.Unlock().  The
\* range reads the slice header once.  While Free writes the header the read
\* may be torn: the old pointer with the length 0 counts nothing, the nil
\* pointer with the old length panics in the loop, with the lock held.
AvailableScan(c) ==
    /\ pc[c] = "B_scan"
    /\ lock = Nil
    /\ \/ /\ ret' = [ret EXCEPT ![c] = CountEmpty(buffersInUse)]
          /\ pc' = [pc EXCEPT ![c] = "B_ret"]
          /\ UNCHANGED lock
       \/ /\ Discarding
          /\ ret' = [ret EXCEPT ![c] = CountEmpty(<<>>)]
          /\ pc' = [pc EXCEPT ![c] = "B_ret"]
          /\ UNCHANGED lock
       \/ /\ Discarding
          /\ pc' = [pc EXCEPT ![c] = "B_panic"]
          /\ lock' = c
          /\ UNCHANGED ret
    /\ log' = <<>>
    /\ UNCHANGED <<build, pool, size, count, nbuf, buffersAvailable, buffersInUse,
                   buf, leased, eb, tagArg, fcount, fi, wpc, scan, now,
                   slot>>

\* return 0, return i
AvailableReturn(c) ==
    /\ pc[c] \in {"B_zero", "B_ret"}
    /\ ret' = [ret EXCEPT ![c] = 0]
    /\ pc' = [pc EXCEPT ![c] = "idle"]
    /\ log' = <<>>
    /\ UNCHANGED <<build, pool, size, count, nbuf, lock, buffersAvailable, buffersInUse,
                   buf, leased, eb, tagArg, fcount, fi, wpc, scan, now,
                   slot>>

\* --------------------------------------------------------------- Free
\* Free is entered: a nil receiver panics, an invalid pool returns, a valid
\* one reads count := p.count.
FreeCall ==
    /\ pc[Owner] = "idle"
    /\ IF pool = "nil"
       THEN pc' = [pc EXCEPT ![Owner] = "panic"] /\ UNCHANGED fcount
       ELSE IF Invalid(size, count)
            THEN pc' = [pc EXCEPT ![Owner] = "F_nop"] /\ UNCHANGED fcount
            ELSE /\ pc' = [pc EXCEPT ![Owner] = "F_zero"]
                 /\ fcount' = count
    /\ log' = <<>>
    /\ UNCHANGED <<build, pool, size, count, nbuf, lock, buffersAvailable, buffersInUse,
                   buf, leased, eb, tagArg, ret, fi, wpc, scan, now,
                   slot>>

\* return, on an invalid pool
FreeNop ==
    /\ pc[Owner] = "F_nop"
    /\ pc' = [pc EXCEPT ![Owner] = "idle"]
    /\ log' = <<>>
    /\ UNCHANGED <<build, pool, size, count, nbuf, lock, buffersAvailable, buffersInUse,
                   buf, leased, eb, tagArg, ret, fcount, fi, wpc, scan, now,
                   slot>>

\* p.lock.Lock(); p.count = 0; p.lock.Unlock(); i := 0
FreeZero ==
    /\ pc[Owner] = "F_zero"
    /\ lock = Nil
    /\ count' = 0
    /\ fi' = 0
    /\ pc' = [pc EXCEPT ![Owner] = "F_drain"]
    /\ log' = <<>>
    /\ UNCHANGED <<build, pool, size, nbuf, lock, buffersAvailable, buffersInUse, buf,
                   leased, eb, tagArg, ret, fcount, wpc, scan, now,
                   slot>>

\* One round of the loop: <-p.buffersAvailable; i++
FreeDrain ==
    /\ pc[Owner] = "F_drain"
    /\ DrainMore(fi, fcount)
    /\ buffersAvailable # <<>>
    /\ buffersAvailable' = Recv(buffersAvailable)
    /\ fi' = fi + 1
    /\ log' = <<>>
    /\ UNCHANGED <<build, pool, size, count, nbuf, lock, buffersInUse, buf, leased, pc,
                   eb, tagArg, ret, fcount, wpc, scan, now,
                   slot>>

\* Mutant of FreeDiscard: the slice is discarded before the loop has ended.
FreeDiscardEarly ==
    /\ pc[Owner] = "F_drain"
    /\ buffersInUse' = <<>>
    /\ fcount' = 0
    /\ fi' = 0
    /\ pc' = [pc EXCEPT ![Owner] = "idle"]
    /\ log' = <<>>
    /\ UNCHANGED <<build, pool, size, count, nbuf, lock, buffersAvailable, buf, leased,
                   eb, tagArg, ret, wpc, scan, now,
                   slot>>

\* The loop ends: p.buffersInUse = nil, and Free returns.
FreeDiscard ==
    /\ pc[Owner] = "F_drain"
    /\ ~DrainMore(fi, fcount)
    /\ buffersInUse' = <<>>
    /\ fcount' = 0
    /\ fi' = 0
    /\ pc' = [pc EXCEPT ![Owner] = "idle"]
    /\ log' = <<>>
    /\ UNCHANGED <<build, pool, size, count, nbuf, lock, buffersAvailable, buf, leased,
                   eb, tagArg, ret, wpc, scan, now,
                   slot>>

\* -------------------------------------------------------- poolMonitor
\* eb.acquiredAt.Add(100 * time.Millisecond).Before(now)
HeldTooLong(t, n) == t + StaleAfter < n

\* The warning the monitor logs: the tag and time.Since(eb.acquiredAt).
HeldWarning(tag, d) == [msg |-> "held", tag |-> tag, for |-> d]

\* The instants a torn read of a time.Time may yield.
Instants == 0 .. StartTime + MaxTicks

\* A torn read of a string that was "": the nil pointer with a length.
TornTag == "(nil, 1)"

\* The values a read of b's acquiredAt by the monitor may yield: the field,
\* or anything while an Acquire is at its unlocked write of it (line 89).
AcquiredAtReads(b) ==
    IF \E c \in Clients : pc[c] = "A_time" /\ eb[c] = b
    THEN Instants
    ELSE {buf[b].acquiredAt}

\* The values a read of b's tag by the monitor may yield: the field, or,
\* while an Acquire is at its unlocked write of it (line 88), the old tag,
\* the new one or a torn string.
TagReads(b) ==
    {buf[b].tag} \cup
        UNION {{tagArg[c], TornTag} : c \in {d \in Clients : pc[d] = "A_tag" /\ eb[d] = b}}

\* Mutant of MonitorExits: the monitor never sees the teardown.
MonitorStays(cnt) == FALSE

\* The test that ends the monitor: p.count == 0
MonitorExits(cnt) == cnt = 0

\* The top of the loop: p.lock.Lock(); with p.count == 0 the monitor unlocks
\* and goes on to its last message; otherwise now := time.Now() and the
\* range over the slots begins, with the lock held.
MonitorLock ==
    /\ wpc = "W_loop"
    /\ lock = Nil
    /\ IF MonitorExits(count)
       THEN /\ wpc' = "W_exit"
            /\ log' = <<>>
            /\ UNCHANGED <<lock, scan>>
       ELSE /\ wpc' = "W_test"
            /\ lock' = Monitor
            /\ scan' = [i |-> 0, now |-> now, tag |-> ""]
            /\ log' = <<>>
    /\ UNCHANGED <<build, pool, size, count, nbuf, buffersAvailable, buffersInUse,
                   buf, leased, pc, eb, tagArg, ret, fcount, fi, now, slot>>

\* After the Unlock of the exit: the message "Buffers.poolMonitor exiting"
\* is logged and the monitor returns.
MonitorReturn ==
    /\ wpc = "W_exit"
    /\ wpc' = "W_done"
    /\ log' = <<[msg |-> "exiting"]>>
    /\ UNCHANGED <<build, pool, size, count, nbuf, lock, buffersAvailable,
                   buffersInUse, buf, leased, pc, eb, tagArg, ret, fcount, fi, scan,
                   now, slot>>

\* The monitor is done with slot scan.i: the next slot, or, after the last,
\* p.lock.Unlock() and the sleep.
MonitorNext ==
    IF scan.i + 1 \in DOMAIN buffersInUse
    THEN /\ wpc' = "W_test"
         /\ scan' = [i |-> scan.i + 1, now |-> scan.now, tag |-> ""]
         /\ UNCHANGED lock
    ELSE /\ wpc' = "W_loop"
         /\ scan' = NoScan
         /\ lock' = Nil

\* eb := p.buffersInUse[i]; eb != nil; the test of eb.acquiredAt against now.
MonitorTest ==
    /\ wpc = "W_test"
    /\ IF buffersInUse[scan.i] = Nil
       THEN MonitorNext
       ELSE \E t \in AcquiredAtReads(buffersInUse[scan.i]) :
                IF HeldTooLong(t, scan.now)
                THEN wpc' = "W_tag" /\ UNCHANGED <<lock, scan>>
                ELSE MonitorNext
    /\ log' = <<>>
    /\ UNCHANGED <<build, pool, size, count, nbuf, buffersAvailable, buffersInUse,
                   buf, leased, pc, eb, tagArg, ret, fcount, fi, now, slot>>

\* The first argument of the warning: eb.tag is read.
MonitorTag ==
    /\ wpc = "W_tag"
    /\ \E t \in TagReads(buffersInUse[scan.i]) : scan' = [scan EXCEPT !.tag = t]
    /\ wpc' = "W_since"
    /\ log' = <<>>
    /\ UNCHANGED <<build, pool, size, count, nbuf, lock, buffersAvailable,
                   buffersInUse, buf, leased, pc, eb, tagArg, ret, fcount, fi, now,
                   slot>>

\* Mutant of MonitorSince: the Buffer reported is taken out of its slot.
MonitorReclaims ==
    /\ wpc = "W_since"
    /\ scan.tag # TornTag
    /\ log' = <<HeldWarning(scan.tag, now - buf[buffersInUse[scan.i]].acquiredAt)>>
    /\ buffersInUse' = [buffersInUse EXCEPT ![scan.i] = Nil]
    /\ MonitorNext
    /\ UNCHANGED <<build, pool, size, count, nbuf, buffersAvailable,
                   buf, leased, pc, eb, tagArg, ret, fcount, fi, now, slot>>

\* The second argument, time.Since(eb.acquiredAt), with eb.acquiredAt read
\* again and the clock read again, and the warning is logged.  Formatting a
\* torn tag dereferences nil: the monitor panics with the lock held.
MonitorSince ==
    /\ wpc = "W_since"
    /\ IF scan.tag = TornTag
       THEN /\ wpc' = "W_panic"
            /\ log' = <<>>
            /\ UNCHANGED <<lock, scan>>
       ELSE /\ \E t \in AcquiredAtReads(buffersInUse[scan.i]) :
                  log' = <<HeldWarning(scan.tag, now - t)>>
            /\ MonitorNext
    /\ UNCHANGED <<build, pool, size, count, nbuf, buffersAvailable, buffersInUse,
                   buf, leased, pc, eb, tagArg, ret, fcount, fi, now, slot>>

\* -------------------------------------------------------------- clock
\* Time passes: time.Now() returns a later instant from now on.
Tick ==
    /\ now < StartTime + MaxTicks
    /\ now' = now + 1
    /\ log' = <<>>
    /\ UNCHANGED <<build, pool, size, count, nbuf, lock, buffersAvailable, buffersInUse,
                   buf, leased, pc, eb, tagArg, ret, fcount, fi, wpc, scan, slot>>

\* ------------------------------------------------------ specification
\* The steps inside a call of Acquire or Release.
LeaseStep(c) ==
    \/ AcquireNil(c)
    \/ AcquireRecv(c)
    \/ AcquireSlot(c)
    \/ AcquireTag(c)
    \/ AcquireTime(c)
    \/ ReleaseClear(c)
    \/ ReleaseIndex(c)
    \/ ReleaseTag(c)
    \/ ReleaseReset(c)
    \/ ReleaseSend(c)

ClientStep(c) ==
    \/ LeaseStep(c)
    \/ AvailableScan(c)
    \/ AvailableReturn(c)

ClientCall(c) ==
    \/ \E t \in Tags : AcquireCall(c, t)
    \/ \E b \in leased : ReleaseCall(c, b)
    \/ AvailableCall(c)

OwnerStep == FreeNop \/ FreeZero \/ FreeDrain \/ FreeDiscard

MonitorStep ==
    \/ MonitorLock
    \/ MonitorReturn
    \/ MonitorTest
    \/ MonitorTag
    \/ MonitorSince

\* The calls and steps of the pool's methods and of the monitor.
NextPool ==
    \/ \E c \in Clients : ClientCall(c)
    \/ \E c \in Clients : ClientStep(c)
    \/ FreeCall
    \/ OwnerStep
    \/ MonitorStep

\* The clients also write into the Buffers they hold.
Next ==
    \/ NextPool
    \/ \E c \in Clients, b \in leased, n \in WriteSizes : Write(c, b, n)

Spec == Init /\ [][Next]_vars

\* Every goroutine that can take a step inside a call eventually takes one;
\* whether and when a caller begins a call is up to the caller.  The fairness
\* of clients and owner is strong: the monitor holds p.lock over a scan and
\* then sleeps for a second (l.195), and sync.Mutex hands the lock to a
\* goroutine that has waited for it, so a goroutine waiting at Lock() gets the
\* lock once the scan is over and is not overtaken by every later scan.  A
\* goroutine waiting for a lock that is never unlocked again waits forever.
Fairness ==
    /\ \A c \in Clients : SF_vars(ClientStep(c))
    /\ SF_vars(OwnerStep)
    /\ WF_vars(MonitorStep)

\* The specification of the progress properties.  Write is left out: it
\* changes only len and cap of a leased Buffer, which no guard reads.
FairSpec == Init /\ [][NextPool]_vars /\ Fairness

\* A client uses the bytes.Buffer of a Buffer it holds.
BufferStep(c) ==
    \E b \in leased :
        \/ \E n \in FillSizes : Write(c, b, n)
        \/ \E n \in RuneSizes : WriteRune(c, b, n)
        \/ \E n \in WriteSizes : Grow(c, b, n)
        \/ Reset(c, b)
        \/ \E n \in TruncateSizes : Truncate(c, b, n)
        \/ \E n \in ReadSizes : Read(c, b, n)
        \/ \E n \in ReadSizes : NextBytes(c, b, n)
        \/ \E n \in RuneSizes : ReadRune(c, b, n)
        \/ \E k \in TakeSizes : ReadBytes(c, b, k)
        \/ UnreadByte(c, b)
        \/ UnreadRune(c, b)
        \/ \E m \in TakeSizes, e \in BOOLEAN : WriteTo(c, b, m, e)
        \/ \E n \in WriteSizes, e \in BOOLEAN : ReadFrom(c, b, n, e)
        \/ \E v \in {ZeroBuf} \cup {BufferOf(n) : n \in WriteSizes} :
              SetBuffer(c, b, v)

\* One goroutine, as in the package's tests, acquires Buffers, uses them in
\* every way and releases them.
NextBuffer ==
    \/ \E t \in Tags : AcquireCall(User, t)
    \/ AcquireRecv(User) \/ AcquireSlot(User)
    \/ AcquireTag(User) \/ AcquireTime(User)
    \/ BufferStep(User)
    \/ \E b \in leased : ReleaseCall(User, b)
    \/ ReleaseClear(User) \/ ReleaseIndex(User) \/ ReleaseTag(User)
    \/ ReleaseReset(User) \/ ReleaseSend(User)

\* The pool of the package's TestOverflow: one Buffer.
InitBuffer ==
    \E g \in Builds, sz \in {z \in SizeInputs : z > 0} : NewPool(g, 1, sz)

\* The specification of the properties of the Buffers' content and capacity.
BufferSpec == InitBuffer /\ [][NextBuffer]_vars

\* The calls of Acquire, Release and Free and the monitor, while time passes.
NextTimed ==
    \/ \E c \in Clients, t \in Tags : AcquireCall(c, t)
    \/ \E c \in Clients, b \in leased : ReleaseCall(c, b)
    \/ \E c \in Clients : LeaseStep(c)
    \/ FreeCall
    \/ OwnerStep
    \/ MonitorStep
    \/ Tick

\* The specification of the properties that depend on the clock.
TimedSpec == Init /\ [][NextTimed]_vars

\* ============================================================= claims
\* The slots that hold a Buffer, and the handles in the channel.
Occupied == {k \in DOMAIN buffersInUse : buffersInUse[k] # Nil}
InQueue == {buffersAvailable[k] : k \in DOMAIN buffersAvailable}
\* Free has not set, or has set, p.count to 0 on a pool NewPool built.
NotTornDown == pool = "valid" /\ count # 0
TornDown == pool = "valid" /\ count = 0
\* The clients holding a handle that is neither in the channel nor in a slot.
InTransit ==
    {c \in Clients : pc[c] \in {"A_slot", "R_index", "R_tag", "R_reset", "R_send"}}
\* Free is past its check; Free is not in progress.
FreeActive == pc[Owner] \in {"F_zero", "F_drain"}
FreeReturned == pc[Owner] = "idle"
\* No call other than the one of client c is in progress.
Quiet(c) == \A p \in Procs \ {c} : pc[p] = "idle"
\* What a call other than Release may not change.
poolState == <<build, pool, size, count, nbuf, lock, buffersAvailable, buffersInUse,
               buf, leased>>

\* C1 as stated: in every state of a pool that is not torn down, the handles
\* in the channel plus the occupied slots number count.
C1_SumIsCount ==
    NotTornDown => Len(buffersAvailable) + Cardinality(Occupied) = count

\* C1, amended: the handles in the channel, the occupied slots and the handles
\* in transit (received by an Acquire that has not assigned the slot yet, or
\* taken out of its slot by a Release that has not sent it yet) number count.
C1_SumWithTransitIsCount ==
    NotTornDown =>
        Len(buffersAvailable) + Cardinality(Occupied) + Cardinality(InTransit)
            = count

C1_Witness ==
    /\ NotTornDown
    /\ \E c \in Clients : pc[c] = "A_slot"
    /\ \E c \in Clients : pc[c] = "R_send"

\* C2: a BuffersAvailable call that counts while no other call is in progress
\* on a pool that is not torn down returns the pool's size minus the number
\* of leased Buffers.
C2_AvailableIsSizeMinusLeased ==
    [][\A c \in Clients :
          (pc[c] = "B_scan" /\ pc'[c] = "B_ret" /\ NotTornDown /\ Quiet(c))
              => ret'[c] = nbuf - Cardinality(leased)]_vars

C2_Witness ==
    \E c \in Clients :
        /\ pc[c] = "B_ret" /\ NotTornDown /\ Quiet(c)
        /\ nbuf = 2 /\ Cardinality(leased) = 1 /\ ret[c] = 1
        /\ \E b \in Buffers : buf[b].index = NoIndex

\* While all Buffers are leased, no Acquire is past its receive.
C3_Blocked ==
    (pool = "valid" /\ Cardinality(leased) = nbuf) =>
        \A c \in Clients : pc[c] \notin {"A_slot", "A_tag", "A_time"}

\* A handle a caller holds is held by no other caller, is not leased and is
\* not in the channel.
C3_OneCaller ==
    \A c \in Clients :
        eb[c] # Nil =>
            /\ eb[c] \notin leased
            /\ eb[c] \notin InQueue
            /\ \A d \in Clients \ {c} : eb[d] # eb[c]

\* C3: while all Buffers are leased no Acquire is past its receive; no handle
\* is held by two callers, or by a caller in Acquire while it is leased; and an
\* Acquire that waits while the channel holds a handle proceeds, unless other
\* receivers empty the channel or the pool is torn down.
C3_BlocksThenOneProceeds ==
    /\ [](C3_Blocked /\ C3_OneCaller)
    /\ \A c \in Clients :
          (NotTornDown /\ pc[c] = "A_recv" /\ buffersAvailable # <<>>)
              ~> (pc[c] # "A_recv" \/ buffersAvailable = <<>> \/ count = 0)

\* One waiting Acquire has received a released handle, another still waits,
\* and every other Buffer is leased.
C3_Witness ==
    /\ NotTornDown
    /\ buffersAvailable = <<>>
    /\ Cardinality(leased) = nbuf - 1
    /\ \E c \in Clients :
          /\ pc[c] = "A_slot"
          /\ buf[eb[c]].index = NoIndex
          /\ \E d \in Clients \ {c} : pc[d] = "A_recv"

\* C4: two leased Buffers never have the same index.
C4_LeasedIndexDistinct ==
    \A a, b \in leased : a # b => buf[a].index # buf[b].index

C4_Witness ==
    /\ Cardinality(leased) = 2
    /\ \E c \in Clients : pc[c] = "A_recv"
    /\ \E b \in leased : buf[b].index = 1

\* C5: no handle is in the channel and in a slot, in two slots, or twice in
\* the channel.
C5_HandleInOnePlace ==
    /\ \A k \in Occupied : buffersInUse[k] \notin InQueue
    /\ \A j, k \in Occupied : buffersInUse[j] = buffersInUse[k] => j = k
    /\ \A j, k \in DOMAIN buffersAvailable :
          buffersAvailable[j] = buffersAvailable[k] => j = k

C5_Witness ==
    /\ pc[Owner] = "F_drain"
    /\ buffersAvailable # <<>>
    /\ Occupied # {}
    /\ \E c \in Clients : pc[c] = "A_recv"

\* No Buffer is leased and no Release is in progress: every Buffer that was
\* leased has been released.
AllBack ==
    /\ leased = {}
    /\ \A c \in Clients :
          pc[c] \notin {"R_clear", "R_index", "R_tag", "R_reset", "R_send"}

\* C6: in a run in which from some point on every leased Buffer has been
\* released, a Free that has passed its check returns.
C6_FreeReturns == <>[]AllBack => (FreeActive ~> FreeReturned)

\* Free has drained every handle and returned.
C6_Witness ==
    /\ TornDown
    /\ pc[Owner] = "idle"
    /\ buffersInUse = <<>>
    /\ buffersAvailable = <<>>
    /\ \E b \in Buffers : buf[b].index = NoIndex

\* C7: on the pool NewPool returns for count <= 0 or size <= 0 no call fails:
\* Acquire, BuffersAvailable and Free return.
C7_InvalidPoolHarmless ==
    pool = "nil" => \A p \in Procs : pc[p] # "panic"

\* C8: on a pool that is torn down, a call of Acquire, BuffersAvailable or Free
\* goes straight to its return (of nil, of 0, of nothing), and neither the
\* call nor the return changes the pool, its channel or its Buffers.
C8_TornDownCallsReturn ==
    [][TornDown =>
          \A p \in Procs :
              /\ (pc[p] = "idle" /\ pc'[p] \notin {"idle", "R_clear"})
                    => /\ pc'[p] \in {"A_nil", "B_zero", "F_nop"}
                       /\ p \in Clients => ret'[p] = 0
                       /\ UNCHANGED poolState
              /\ (pc[p] \in {"A_nil", "B_zero", "F_nop"} /\ pc'[p] # pc[p])
                    => pc'[p] = "idle" /\ UNCHANGED poolState]_vars

C8_Witness ==
    /\ TornDown
    /\ pc[Owner] = "F_nop"
    /\ \E c \in Clients : pc[c] = "A_nil"
    /\ \E c \in Clients : pc[c] = "B_zero"

\* C9: the channel never holds more handles than the count the pool was built
\* with (its capacity, nbuf), and has room whenever a Release is at its send.
C9_SendNeverBlocks ==
    /\ Len(buffersAvailable) <= nbuf
    /\ \A c \in Clients : pc[c] = "R_send" => Len(buffersAvailable) < nbuf

C9_Witness ==
    /\ nbuf = 2
    /\ Len(buffersAvailable) = nbuf - 1
    /\ \E c \in Clients : pc[c] = "R_send"

\* C10 as stated: when Release returns, the Buffer is empty, its tag is "",
\* its index is -1, and the slot it occupied is empty.
C10_ReleasedAndSlotEmpty ==
    [][\A c \in Clients :
          (pc[c] = "R_send" /\ pc'[c] = "idle") =>
              /\ buf'[eb[c]].len = 0
              /\ buf'[eb[c]].tag = ""
              /\ buf'[eb[c]].index = NoIndex
              /\ buffersInUse'[slot[c]] = Nil]_vars

\* C10, amended: when Release returns, the Buffer is empty, its tag is "", its
\* index is -1, and no slot holds it; Release emptied the slot it occupied.
C10_ReleasedAndInNoSlot ==
    [][\A c \in Clients :
          /\ (pc[c] = "R_clear" /\ pc'[c] = "R_index")
                => buffersInUse'[buf[eb[c]].index] = Nil
          /\ (pc[c] = "R_send" /\ pc'[c] = "idle") =>
                /\ buf'[eb[c]].len = 0
                /\ buf'[eb[c]].tag = ""
                /\ buf'[eb[c]].index = NoIndex
                /\ \A k \in DOMAIN buffersInUse' : buffersInUse'[k] # eb[c]]_vars

\* A Buffer that grew under a write is back in the channel, empty.
C10_Witness ==
    \E b \in InQueue :
        /\ buf[b].index = NoIndex
        /\ buf[b].cap > GrowNew(build, size)
        /\ buf[b].len = 0
        /\ buf[b].tag = ""

\* A Release begins: client c goes from idle to the clearing of the slot.
ReleaseBegins(c) == pc[c] = "idle" /\ pc'[c] = "R_clear"

\* C11: a Release logs the growth warning exactly when the Buffer's capacity
\* exceeds its origSize, and then origSize is that capacity; origSize never
\* decreases and is at least the pool's size; and a Buffer that is not leased
\* and has been released before has a capacity of at most origSize, so that
\* its next Release at that or a smaller capacity logs nothing.
C11_GrowthWarning ==
    /\ [][/\ \A c \in Clients :
               ReleaseBegins(c) =>
                   /\ buf[eb'[c]].cap > buf[eb'[c]].origSize
                         => /\ log' = <<GrowthWarning(buf[eb'[c]])>>
                            /\ buf'[eb'[c]].origSize = buf[eb'[c]].cap
                   /\ buf[eb'[c]].cap <= buf[eb'[c]].origSize
                         => /\ log' = <<>>
                            /\ buf'[eb'[c]].origSize = buf[eb'[c]].origSize
                   /\ buf'[eb'[c]].cap = buf[eb'[c]].cap
                   /\ buf'[eb'[c]].origSize >= buf'[eb'[c]].cap
          /\ \A b \in Buffers : buf'[b].origSize >= buf[b].origSize]_vars
    /\ [](\A b \in Buffers :
            /\ buf[b].origSize >= size
            /\ (b \notin leased /\ buf[b].cap > buf[b].origSize)
                  => buf[b].cap = GrowNew(build, size) /\ buf[b].origSize = size)

\* A Buffer that grew under a write and was released with a warning is being
\* released again, unchanged, without one.
C11_Witness ==
    \E c \in Clients :
        /\ pc[c] = "R_clear"
        /\ log = <<>>
        /\ buf[eb[c]].cap > GrowNew(build, size)
        /\ buf[eb[c]].origSize = buf[eb[c]].cap
        /\ buf[eb[c]].len = 0

\* Free returns: the owner leaves the loop of Free.
FreeReturns == pc[Owner] = "F_drain" /\ pc'[Owner] = "idle"

\* C12: when Free returns from its loop, it has received every one of the
\* handles the pool was built with; when it returns, from the loop or at once
\* on a pool torn down before, the channel is empty, no slot is occupied, no
\* Buffer is leased and no caller holds a handle; and while a Buffer is leased
\* or a slot is occupied, a Free in its loop has handles left to receive.
C12_FreeReturnsAfterAllReleased ==
    /\ [][/\ FreeReturns => fi = nbuf
          /\ (FreeReturns \/ (pc[Owner] = "F_nop" /\ pc'[Owner] = "idle")) =>
                /\ buffersAvailable = <<>>
                /\ Occupied = {}
                /\ leased = {}
                /\ \A c \in Clients : eb[c] = Nil]_vars
    /\ [](pc[Owner] = "F_drain" /\ (leased # {} \/ Occupied # {})
            => DrainMore(fi, fcount))

\* Free has received the last handle, which was leased and released while it
\* drained, and an Acquire that began before the teardown still waits.
C12_Witness ==
    /\ pc[Owner] = "F_drain"
    /\ fcount = 2
    /\ fi = fcount
    /\ \A b \in Buffers : buf[b].index = NoIndex
    /\ \E c \in Clients : pc[c] = "A_recv"

\* The last step logged a held-too-long warning.
HeldLogged(l) == \E k \in DOMAIN l : l[k].msg = "held"

\* A goroutine has panicked.  The package recovers nowhere: a panic ends the
\* process, the monitor with it, unless a caller of the package recovers it.
Panicked == wpc = "W_panic" \/ \E p \in Procs : pc[p] \in {"panic", "B_panic"}

\* The monitor never sees count = 0 in the middle of a scan.
MonitorLeaving == wpc \in {"W_loop", "W_exit", "W_done", "W_panic"}

\* C13: once Free has set count to 0, no step logs a held-too-long warning and
\* the monitor's next round is its exit (the unlock, then the last message and
\* the return); a monitor that has returned stays so; and under fair
\* scheduling the monitor does return, whether or not Free ever returns, in
\* every run in which no goroutine of the process has panicked.
C13_MonitorStops ==
    /\ [][TornDown =>
            /\ ~HeldLogged(log')
            /\ wpc' # wpc => \/ wpc = "W_loop" /\ wpc' = "W_exit"
                             \/ wpc = "W_exit" /\ wpc' = "W_done"]_vars
    /\ [](TornDown => MonitorLeaving)
    /\ [][wpc = "W_done" => wpc' = "W_done"]_vars
    /\ TornDown ~> (wpc = "W_done" \/ Panicked)

\* The monitor has returned while Free still waits for a leased Buffer.
C13_Witness ==
    /\ wpc = "W_done"
    /\ ~Panicked
    /\ pc[Owner] = "F_drain"
    /\ DrainMore(fi, fcount)
    /\ leased # {}
    /\ \E b \in leased : buffersInUse[buf[b].index] = b

\* The Buffers reachable through a slot.
InSlot == {buffersInUse[k] : k \in Occupied}

\* The step is a critical section of client c or of the owner: the statements
\* between Lock() and Unlock() in Acquire, Release and Free.
LockedStep ==
    \/ \E c \in Clients : pc[c] \in {"A_slot", "R_clear"} /\ pc'[c] # pc[c]
    \/ pc[Owner] = "F_zero" /\ pc'[Owner] # "F_zero"

\* C14: every step that changes the slice buffersInUse or one of its slots,
\* p.count, or the index, tag or acquiredAt of a Buffer reachable through a
\* slot is a critical section under p.lock, and no goroutine is at an
\* unlocked write of such a field while the monitor is running.
C14_MutationsUnderLock ==
    /\ [][/\ buffersInUse' # buffersInUse => LockedStep
          /\ count' # count => LockedStep
          /\ \A b \in InSlot :
                (\/ buf'[b].index # buf[b].index
                 \/ buf'[b].tag # buf[b].tag
                 \/ buf'[b].acquiredAt # buf[b].acquiredAt) => LockedStep]_vars
    /\ [](\A c \in Clients :
            (pc[c] \in {"A_tag", "A_time"} /\ wpc \notin {"W_done", "W_panic"})
                => eb[c] \notin InSlot)

\* C15: the index of a Buffer differs from -1 exactly while the Buffer is in a
\* slot (from the assignment in Acquire to the clearing in Release), and every
\* Buffer in the channel, a new one included, has index -1.
C15_IndexIffLeased ==
    /\ \A b \in Buffers : buf[b].index # NoIndex <=> b \in InSlot
    /\ \A b \in InQueue : buf[b].index = NoIndex

\* C16: the critical section of Acquire puts the Buffer it received into a
\* slot i that was empty, with every slot below i occupied, sets the Buffer's
\* index to i, and leaves the other slots as they were.
C16_LowestEmptySlot ==
    [][\A c \in Clients :
          (pc[c] = "A_slot" /\ pc'[c] = "A_tag") =>
              /\ buf'[eb[c]].index \in DOMAIN buffersInUse
              /\ buffersInUse[buf'[eb[c]].index] = Nil
              /\ buffersInUse'[buf'[eb[c]].index] = eb[c]
              /\ \A j \in DOMAIN buffersInUse :
                    /\ j < buf'[eb[c]].index => buffersInUse[j] # Nil
                    /\ j # buf'[eb[c]].index
                          => buffersInUse'[j] = buffersInUse[j]]_vars

\* An Acquire has taken slot 0, emptied by a Release, while slot 1 is occupied.
C16_Witness ==
    \E c \in Clients :
        /\ pc[c] = "A_tag"
        /\ buf[eb[c]].index = 0
        /\ buffersInUse[0] = eb[c]
        /\ 1 \in Occupied

\* Buffer b is in a slot but its Acquire has not stamped tag and acquiredAt
\* yet: they are those of the lease before, or of a new Buffer.
Unstamped(b) == \E c \in Clients : pc[c] \in {"A_tag", "A_time"} /\ eb[c] = b

\* C17: a held-too-long warning reports a leased Buffer that its Acquire has
\* stamped, with the tag of its lease and the time since its stamp, which is
\* longer than the threshold.
C17_WarningsOfCurrentLease ==
    [][HeldLogged(log') =>
          /\ buffersInUse[scan.i] \in leased
          /\ ~Unstamped(buffersInUse[scan.i])
          /\ log'[1].tag = buf[buffersInUse[scan.i]].tag
          /\ log'[1].for = now - buf[buffersInUse[scan.i]].acquiredAt
          /\ log'[1].for > StaleAfter]_vars

\* The step is one of the monitor: a step of its loop, and in particular
\* every step that logs a held-too-long warning or ends the monitor.
MonitorActs == MonitorStep \/ HeldLogged(log') \/ wpc' # wpc

\* C18: a step of the monitor changes nothing but the monitor's own position
\* and locals, the lock it takes for the scan, and the log: the slots, the
\* channel, count, every field of every Buffer, the set of leased Buffers and
\* the calls in progress stay as they are, so a Buffer reported as held too
\* long is still leased, in the same slot.
C18_MonitorOnlyObserves ==
    [][MonitorActs =>
          /\ UNCHANGED <<build, pool, size, count, nbuf, buffersAvailable,
                         buffersInUse, buf, leased>>
          /\ UNCHANGED <<pc, eb, tagArg, ret, fcount, fi, slot, now>>
          /\ lock' \in {Nil, Monitor}]_vars

\* The monitor has just reported a leased Buffer, stamped by its Acquire and
\* held for longer than the threshold, and the Buffer is still in its slot.
C18_Witness ==
    /\ HeldLogged(log)
    /\ \E b \in leased :
          /\ HeldTooLong(buf[b].acquiredAt, now)
          /\ buf[b].acquiredAt >= StartTime
          /\ buf[b].index \in Occupied
          /\ buffersInUse[buf[b].index] = b
          /\ log[1] = HeldWarning(buf[b].tag, now - buf[b].acquiredAt)

\* Buffer b is in the slot its index names.
InOwnSlot(b) ==
    /\ buf[b].index \in 0 .. nbuf - 1
    /\ buf[b].index \in DOMAIN buffersInUse
    /\ buffersInUse[buf[b].index] = b

\* C19: an Acquire that has received a handle finds an empty slot; every
\* leased Buffer, and every Buffer whose Release is about to clear its slot,
\* is in the slot its index names, inside the slice; and no call on a pool
\* NewPool built panics on its receiver or on the index of a slot, whether or
\* not Free is in progress.
C19_LeasedInOwnSlot ==
    /\ \A c \in Clients : pc[c] = "A_slot" => EmptySlots(buffersInUse) # {}
    /\ \A b \in leased : InOwnSlot(b)
    /\ \A c \in Clients : pc[c] = "R_clear" => InOwnSlot(eb[c])
    /\ pool = "valid" => \A p \in Procs : pc[p] # "panic"

\* While Free drains, one Buffer is leased in slot 1 and the Release of the
\* Buffer in slot 0 is about to clear it.
C19_Witness ==
    /\ pc[Owner] = "F_drain"
    /\ \E b \in leased : buf[b].index = 1
    /\ \E c \in Clients : pc[c] = "R_clear" /\ buf[eb[c]].index = 0

\* Every leased Buffer is released at some later time.
AllReleased == \A b \in 1 .. MaxCount : [](b \in leased => <>(b \notin leased))

\* C20: in a run in which every leased Buffer is eventually released, an
\* Acquire that waits at its receive on a pool that Free has torn down and
\* returned from eventually leaves the receive.
C20_AcquireNotLeftBlocked ==
    AllReleased =>
        \A c \in Clients :
            (pc[c] = "A_recv" /\ TornDown /\ FreeReturned) ~> (pc[c] # "A_recv")

=============================================================================
